---------------------------- MODULE Spec2Model ----------------------------
(***************************************************************************)
(* A model of tensorflow_federated/python/program/native_platform.py:      *)
(* NumpyValueReference, the two type-directed traversals                   *)
(* (_create_structure_of_value_references and                              *)
(* _materialize_structure_of_value_references), NativeFederatedContext,    *)
(* DatasetDataSourceIterator and DatasetDataSource.                        *)
(*                                                                         *)
(* Python objects are tagged tuples, the tag first:                        *)
(*   types   <<"tensor", dtype>>  <<"sequence", element>>                  *)
(*           <<"federated", member, placement>>  <<"struct", fields>>      *)
(*           <<"placement">> (a kind that is none of the four)             *)
(*   values  <<"np", n>>  <<"list", items>>  <<"tuple", items>>            *)
(*           <<"OrderedDict", fields>>  <<"Struct", fields>>               *)
(*           <<"NumpyValueReference", value, type>>                        *)
(*   raised  <<"raise", exception name>>                                   *)
(* fields is a sequence of <<name, child>> pairs; an unnamed field has the *)
(* name NoName.                                                            *)
(***************************************************************************)
EXTENDS Integers, Sequences, FiniteSets, TLC

VARIABLES
    \* --- the traversals (SpecWalk)
    value,          \* the value handed to a traversal
    type_signature, \* the type handed with it
    wrapped,        \* _create_structure_of_value_references(value, type_signature)
    materialized,   \* _materialize_structure_of_value_references(wrapped, type_signature)
    ingested,       \* NativeFederatedContext.ingest(value, type_signature)
    \* --- NativeFederatedContext.invoke (SpecInvoke)
    comp,           \* the computation: its parameter type (or None) and result type
    engine_calls,   \* the calls invoke made on self._context, in order
    outcome,        \* what invoke returned or raised
    \* --- DatasetDataSource and DatasetDataSourceIterator (SpecData)
    lists,          \* the dataset collections that exist; a collection is its index
    data_source,    \* the DatasetDataSource
    iterators,      \* the DatasetDataSourceIterators, in order of creation
    last_call,      \* the last call, its arguments and what it returned or raised
    select_failed,  \* history: the iterators on which a select has raised
    \* --- NumpyValueReference.__eq__ (SpecEq)
    references,     \* the NumpyValueReferences, in order of creation
    last_eq         \* the last comparison: self, other and the result

walkVars == <<value, type_signature, wrapped, materialized, ingested>>
invokeVars == <<comp, engine_calls, outcome>>
dataVars == <<lists, data_source, iterators, last_call, select_failed>>
eqVars == <<references, last_eq>>
vars == <<walkVars, invokeVars, dataVars, eqVars>>

----------------------------------------------------------------------------
\* Bounds of the model.

\* The largest number of nodes of a type signature.
MaxNodes == 3
\* The largest number of fields of a struct type.
MaxFields == 2
\* The largest number of datasets of a collection.
MaxDatasets == 2
\* The largest number of iterators created from the data source.
MaxIterators == 2
\* The largest number of NumpyValueReferences created.
MaxReferences == 2
\* The largest number of elements of a sequence value.
MaxLength == 2

----------------------------------------------------------------------------
\* Types (computation_types), values and exceptions.

NoName == "None"
FieldNames == {"a", "b", NoName}
Placements == {"SERVER", "CLIENTS"}

TensorType(dtype) == <<"tensor", dtype>>
SequenceType(element) == <<"sequence", element>>
FederatedType(member, placement) == <<"federated", member, placement>>
StructType(fields) == <<"struct", fields>>
PlacementType == <<"placement">>

is_struct(t) == t[1] = "struct"
is_federated(t) == t[1] = "federated"
is_sequence(t) == t[1] = "sequence"
is_tensor(t) == t[1] = "tensor"

Np(n) == <<"np", n>>
Raise(exc) == <<"raise", exc>>
IsRaise(v) == v[1] = "raise"
NotYet == <<"pending">>
None == <<"None">>

Min(a, b) == IF a < b THEN a ELSE b

\* The variables of the other components, which a specification leaves alone.
WalkIdle ==
    /\ value = NotYet /\ type_signature = NotYet /\ wrapped = NotYet
    /\ materialized = NotYet /\ ingested = NotYet
InvokeIdle == comp = NotYet /\ engine_calls = NotYet /\ outcome = NotYet
DataIdle ==
    /\ lists = NotYet /\ data_source = NotYet /\ iterators = NotYet
    /\ last_call = NotYet /\ select_failed = NotYet
EqIdle == references = NotYet /\ last_eq = NotYet

\* NumpyValueReference.__init__: the type must be a tensor or a sequence type.
NumpyValueReference(v, t) ==
    IF is_tensor(t) \/ is_sequence(t)
    THEN <<"NumpyValueReference", v, t>>
    ELSE Raise("TypeError")

isinstance_NumpyValueReference(x) == x[1] = "NumpyValueReference"

\* NumpyValueReference.get_value
get_value(ref) == ref[2]

\* structure.from_container(value): the canonical ordered-named-field form of
\* a container; a value that is no container is a type mismatch.
from_container(v) ==
    CASE v[1] = "Struct" -> v
      [] v[1] = "OrderedDict" -> <<"Struct", v[2]>>
      [] v[1] \in {"list", "tuple"} ->
            <<"Struct", [i \in 1..Len(v[2]) |-> <<NoName, v[2][i]>>]>>
      [] OTHER -> Raise("TypeError")

\* The first exception among the elements the loop built, in loop order.
FirstRaise(elements) ==
    LET bad == {i \in 1..Len(elements) : IsRaise(elements[i][2])}
        first == CHOOSE i \in bad : \A j \in bad : i <= j
    IN  elements[first][2]

AnyRaise(elements) == \E i \in 1..Len(elements) : IsRaise(elements[i][2])


----------------------------------------------------------------------------
\* The structural type walker.

RECURSIVE _create_structure_of_value_references(_, _)
RECURSIVE _materialize_structure_of_value_references(_, _)

RECURSIVE _create_strict_zip(_, _)
\* A variant that refuses a container whose length differs from the type's.
_create_strict_zip(v, t) ==
    IF is_struct(t) THEN
        LET s == from_container(v) IN
        IF IsRaise(s) THEN s ELSE
        IF Len(s[2]) # Len(t[2]) THEN Raise("ValueError") ELSE
        LET elements == [i \in 1..Len(t[2]) |->
                <<t[2][i][1], _create_strict_zip(s[2][i][2], t[2][i][2])>>]
        IN  IF AnyRaise(elements) THEN FirstRaise(elements)
            ELSE <<"Struct", elements>>
    ELSE IF is_federated(t) THEN _create_strict_zip(v, t[2])
    ELSE IF is_sequence(t) \/ is_tensor(t) THEN NumpyValueReference(v, t)
    ELSE Raise("NotImplementedError")

\* _create_structure_of_value_references(value, type_signature)
_create_structure_of_value_references(v, t) ==
    IF is_struct(t) THEN
        LET s == from_container(v) IN
        IF IsRaise(s) THEN s ELSE
        LET n == Min(Len(s[2]), Len(t[2]))
            elements == [i \in 1..n |->
                <<t[2][i][1],
                  _create_structure_of_value_references(s[2][i][2], t[2][i][2])>>]
        IN  IF AnyRaise(elements) THEN FirstRaise(elements)
            ELSE <<"Struct", elements>>
    ELSE IF is_federated(t) THEN
        _create_structure_of_value_references(v, t[2])
    ELSE IF is_sequence(t) THEN NumpyValueReference(v, t)
    ELSE IF is_tensor(t) THEN NumpyValueReference(v, t)
    ELSE Raise("NotImplementedError")

\* A variant that hands the reference on unresolved.
_materialize_keeps_reference(x) == x

\* The nested _materialize(x) of _materialize_structure_of_value_references.
_materialize(x) ==
    IF isinstance_NumpyValueReference(x) THEN get_value(x) ELSE x

RECURSIVE _materialize_exhaustive(_, _)
\* A variant whose dispatch is closed like the wrapping one's.
_materialize_exhaustive(v, t) ==
    IF is_struct(t) THEN
        LET s == from_container(v) IN
        IF IsRaise(s) THEN s ELSE
        LET n == Min(Len(s[2]), Len(t[2]))
            elements == [i \in 1..n |->
                <<t[2][i][1], _materialize_exhaustive(s[2][i][2], t[2][i][2])>>]
        IN  IF AnyRaise(elements) THEN FirstRaise(elements)
            ELSE <<"Struct", elements>>
    ELSE IF is_federated(t) THEN _materialize_exhaustive(v, t[2])
    ELSE IF is_sequence(t) \/ is_tensor(t) THEN _materialize(v)
    ELSE Raise("NotImplementedError")

\* _materialize_structure_of_value_references(value, type_signature)
_materialize_structure_of_value_references(v, t) ==
    IF is_struct(t) THEN
        LET s == from_container(v) IN
        IF IsRaise(s) THEN s ELSE
        LET n == Min(Len(s[2]), Len(t[2]))
            elements == [i \in 1..n |->
                <<t[2][i][1],
                  _materialize_structure_of_value_references(s[2][i][2], t[2][i][2])>>]
        IN  IF AnyRaise(elements) THEN FirstRaise(elements)
            ELSE <<"Struct", elements>>
    ELSE IF is_federated(t) THEN
        _materialize_structure_of_value_references(v, t[2])
    ELSE IF is_sequence(t) THEN _materialize(v)
    ELSE IF is_tensor(t) THEN _materialize(v)
    ELSE v

\* NativeFederatedContext.ingest(value, type_spec)
ingest(v, type_spec) == _materialize_structure_of_value_references(v, type_spec)

----------------------------------------------------------------------------
\* The inputs of the traversals: every type signature of at most MaxNodes
\* nodes whose structs have at most MaxFields uniquely named fields, each
\* with the values shaped like it, and the struct values whose number of
\* elements or whose names differ from the type's.

LeafTypes == {TensorType("int32"), SequenceType(TensorType("int32")), PlacementType}

UniqueNames(fields) ==
    \A i, j \in 1..Len(fields) :
        (i # j /\ fields[i][1] = fields[j][1]) => fields[i][1] = NoName

RECURSIVE TypesOfSize(_)
RECURSIVE FieldSeqs(_, _)

\* The sequences of k fields whose types have n nodes in all.
FieldSeqs(k, n) ==
    IF k = 0 THEN (IF n = 0 THEN {<<>>} ELSE {})
    ELSE UNION {{<<<<name, t>>>> \o rest :
                    name \in FieldNames, t \in TypesOfSize(m),
                    rest \in FieldSeqs(k - 1, n - m)} : m \in 1..(n - (k - 1))}

\* The type signatures of exactly n nodes.
TypesOfSize(n) ==
    IF n = 1 THEN LeafTypes \cup {StructType(<<>>)}
    ELSE {FederatedType(member, p) : member \in TypesOfSize(n - 1), p \in Placements}
         \cup {StructType(fields) :
                 fields \in {f \in UNION {FieldSeqs(k, n - 1) : k \in 1..MaxFields} :
                                UniqueNames(f)}}

Types == UNION {TypesOfSize(n) : n \in 1..MaxNodes}

RECURSIVE Product(_)
\* The sequences whose i-th element is drawn from sets[i].
Product(sets) ==
    IF sets = <<>> THEN {<<>>}
    ELSE {<<h>> \o rest : h \in Head(sets), rest \in Product(Tail(sets))}

\* The Python containers that can carry fields of these names.
ContainersFor(names) ==
    {"Struct"}
    \cup (IF \A i \in 1..Len(names) : names[i] # NoName THEN {"OrderedDict"} ELSE {})
    \cup (IF \A i \in 1..Len(names) : names[i] = NoName THEN {"tuple"} ELSE {})

\* A container of kind c holding children under names.
Container(c, names, children) ==
    IF c \in {"tuple", "list"} THEN <<c, children>>
    ELSE <<c, [i \in 1..Len(children) |-> <<names[i], children[i]>>]>>

RECURSIVE ShapedValues(_, _)
\* The values shaped like type t, for the i-th element of its parent (the
\* leaves of different elements differ, so that a reordering shows).
ShapedValues(t, i) ==
    IF is_struct(t) THEN
        LET names == [j \in 1..Len(t[2]) |-> t[2][j][1]]
            sets == [j \in 1..Len(t[2]) |-> ShapedValues(t[2][j][2], j)]
        IN  {Container(c, names, children) :
                c \in ContainersFor(names), children \in Product(sets)}
    ELSE IF is_federated(t) THEN ShapedValues(t[2], i)
    ELSE IF is_sequence(t) THEN {<<"list", <<Np(i)>>>>}
    ELSE {Np(i)}

\* Struct types of leaf fields against containers of 0..MaxFields+1 elements
\* under any names.
TruncationInputs ==
    LET leaves == {TensorType("int32"), SequenceType(TensorType("int32"))}
        types == {StructType(f) :
                    f \in {g \in UNION {[1..k -> FieldNames \X leaves] : k \in 0..MaxFields} :
                              UniqueNames(g)}}
        namings == {g \in UNION {[1..m -> FieldNames] : m \in 0..(MaxFields + 1)} :
                       \A i, j \in 1..Len(g) : (i # j /\ g[i] = g[j]) => g[i] = NoName}
        values == UNION {{Container(c, names, [j \in 1..Len(names) |-> Np(j)]) :
                            c \in ContainersFor(names) \cup
                                  (IF "tuple" \in ContainersFor(names) THEN {"list"} ELSE {})} :
                         names \in namings}
    IN  values \X types

\* Every type with each of the values shaped like it, and the truncation inputs.
WalkInputs ==
    UNION {{<<v, t>> : v \in ShapedValues(t, 0)} : t \in Types} \cup TruncationInputs

----------------------------------------------------------------------------
\* SpecWalk: the traversals applied to every input.

InitWalk ==
    /\ \E input \in WalkInputs : value = input[1] /\ type_signature = input[2]
    /\ wrapped = NotYet
    /\ materialized = NotYet
    /\ ingested = NotYet
    /\ InvokeIdle /\ DataIdle /\ EqIdle

\* A computation result is wrapped into value references.
CreateReferences ==
    /\ wrapped = NotYet
    /\ wrapped' = _create_structure_of_value_references(value, type_signature)
    /\ UNCHANGED <<value, type_signature, materialized, ingested, invokeVars, dataVars, eqVars>>

\* The references are resolved again.
MaterializeReferences ==
    /\ wrapped # NotYet
    /\ ~IsRaise(wrapped)
    /\ materialized = NotYet
    /\ materialized' = _materialize_structure_of_value_references(wrapped, type_signature)
    /\ UNCHANGED <<value, type_signature, wrapped, ingested, invokeVars, dataVars, eqVars>>

\* NativeFederatedContext.ingest on the plain value.
Ingest ==
    /\ ingested = NotYet
    /\ ingested' = ingest(value, type_signature)
    /\ UNCHANGED <<value, type_signature, wrapped, materialized, invokeVars, dataVars, eqVars>>

NextWalk == CreateReferences \/ MaterializeReferences \/ Ingest

SpecWalk == InitWalk /\ [][NextWalk]_vars

----------------------------------------------------------------------------
\* What the claims about the traversals speak of.

RECURSIVE Matches(_, _)
\* Value v matches type t: t is built from the four kinds, and every struct
\* node of t meets a container with the same field names in the same order.
Matches(v, t) ==
    IF is_struct(t) THEN
        LET s == from_container(v) IN
        /\ ~IsRaise(s)
        /\ Len(s[2]) = Len(t[2])
        /\ \A i \in 1..Len(t[2]) :
              s[2][i][1] = t[2][i][1] /\ Matches(s[2][i][2], t[2][i][2])
    ELSE IF is_federated(t) THEN Matches(v, t[2])
    ELSE IF is_sequence(t) THEN v[1] = "list"
    ELSE IF is_tensor(t) THEN v[1] = "np"
    ELSE FALSE

RECURSIVE StructurallyEqual(_, _, _)
\* a and b are the same value of type t: at a struct node the same fields
\* under the same names in the same order, at a leaf the same value.
StructurallyEqual(a, b, t) ==
    IF is_struct(t) THEN
        LET fa == from_container(a)
            fb == from_container(b)
        IN  /\ ~IsRaise(fa) /\ ~IsRaise(fb)
            /\ Len(fa[2]) = Len(fb[2])
            /\ Len(fa[2]) = Len(t[2])
            /\ \A i \in 1..Len(t[2]) :
                  /\ fa[2][i][1] = fb[2][i][1]
                  /\ StructurallyEqual(fa[2][i][2], fb[2][i][2], t[2][i][2])
    ELSE IF is_federated(t) THEN StructurallyEqual(a, b, t[2])
    ELSE a = b

RECURSIVE ReachesOtherKind(_, _)
\* The traversal of v along t comes to a node whose kind is none of struct,
\* federated, sequence, tensor.
ReachesOtherKind(v, t) ==
    IF is_struct(t) THEN
        LET s == from_container(v) IN
        /\ ~IsRaise(s)
        /\ \E i \in 1..Min(Len(s[2]), Len(t[2])) :
              ReachesOtherKind(s[2][i][2], t[2][i][2])
    ELSE IF is_federated(t) THEN ReachesOtherKind(v, t[2])
    ELSE ~(is_sequence(t) \/ is_tensor(t))

RECURSIVE PassedThrough(_, _, _)
\* out holds, at every node of another kind that the traversal of in along t
\* reaches, the value in holds there.
PassedThrough(out, in, t) ==
    IF is_struct(t) THEN
        LET s == from_container(in) IN
        /\ out[1] = "Struct"
        /\ \A i \in 1..Min(Len(s[2]), Len(t[2])) :
              PassedThrough(out[2][i][2], s[2][i][2], t[2][i][2])
    ELSE IF is_federated(t) THEN PassedThrough(out, in, t[2])
    ELSE IF is_sequence(t) \/ is_tensor(t) THEN TRUE
    ELSE out = in

\* The field names of a struct value or a struct type, in order.
NamesOf(fields) == [i \in 1..Len(fields) |-> fields[i][1]]

\* C3: for a value matching a type built from struct, federated, sequence and
\* tensor nodes, wrapping never fails and materializing the wrapped value
\* gives the value back, field for field under the same names in the same
\* order.
RoundTrip ==
    Matches(value, type_signature) =>
        /\ wrapped # NotYet => ~IsRaise(wrapped)
        /\ materialized # NotYet =>
              StructurallyEqual(materialized, value, type_signature)

\* A two-field struct <b, a> given as an OrderedDict went round.
RoundTripWitness ==
    /\ materialized # NotYet
    /\ Matches(value, type_signature)
    /\ is_struct(type_signature)
    /\ NamesOf(type_signature[2]) = <<"b", "a">>
    /\ value[1] = "OrderedDict"

\* C8: wrapping fails with the unimplemented-type error exactly when the
\* traversal reaches a node of another kind, at the root or below it, while
\* unwrapping (ingest) does not fail and returns the value of that node
\* unchanged.
OtherKindAsymmetry ==
    /\ wrapped # NotYet =>
          (ReachesOtherKind(value, type_signature)
              <=> wrapped = Raise("NotImplementedError"))
    /\ ingested # NotYet =>
          /\ ~IsRaise(ingested)
          /\ PassedThrough(ingested, value, type_signature)

\* A struct whose first field is of another kind was wrapped and ingested.
OtherKindWitness ==
    /\ wrapped = Raise("NotImplementedError")
    /\ ingested # NotYet
    /\ is_struct(type_signature)
    /\ Len(type_signature[2]) = 2
    /\ type_signature[2][1][2] = PlacementType
    /\ ingested[2][1][2] = Np(1)

\* C10: for a struct type of n fields and a container of m elements whose
\* paired children are of the four kinds, both traversals return a struct of
\* min(m, n) fields named by the type's first min(m, n) names, whatever m and
\* the container's own names are.
Truncation ==
    (is_struct(type_signature) /\ ~IsRaise(from_container(value))
        /\ ~ReachesOtherKind(value, type_signature)) =>
        LET m == Len(from_container(value)[2])
            n == Len(type_signature[2])
            names == SubSeq(NamesOf(type_signature[2]), 1, Min(m, n))
        IN  /\ wrapped # NotYet =>
                  wrapped[1] = "Struct" /\ NamesOf(wrapped[2]) = names
            /\ ingested # NotYet =>
                  ingested[1] = "Struct" /\ NamesOf(ingested[2]) = names

\* Two elements named b and a met a one-field type <a>; three unnamed
\* elements are covered with them.
TruncationWitness ==
    /\ wrapped # NotYet
    /\ ingested # NotYet
    /\ is_struct(type_signature)
    /\ NamesOf(type_signature[2]) = <<"a">>
    /\ value[1] = "Struct"
    /\ NamesOf(value[2]) = <<"b", "a">>
    /\ NamesOf(wrapped[2]) = <<"a">>

----------------------------------------------------------------------------
\* NativeFederatedContext.invoke.

RECURSIVE contains_only_server_placed_data(_)
\* federated_context.contains_only_server_placed_data(type_signature): every
\* node of the type is a struct, a federated type placed at the server, or a
\* tensor.
contains_only_server_placed_data(t) ==
    IF is_struct(t) THEN
        \A i \in 1..Len(t[2]) : contains_only_server_placed_data(t[2][i][2])
    ELSE IF is_federated(t) THEN
        t[3] = "SERVER" /\ contains_only_server_placed_data(t[2])
    ELSE is_tensor(t)

\* A variant that checks the result type only after the engine has run.
invoke_checks_after_engine(c, engine) ==
    LET ingests == IF c.parameter # None THEN <<"ingest">> ELSE <<>> IN
    IF c.parameter # None /\ engine.ingest = "raises" THEN
        [calls |-> ingests, outcome |-> Raise("EngineError")]
    ELSE IF engine.invoke = "raises" THEN
        [calls |-> ingests \o <<"invoke">>, outcome |-> Raise("EngineError")]
    ELSE IF ~contains_only_server_placed_data(c.result) THEN
        [calls |-> ingests \o <<"invoke">>, outcome |-> Raise("ValueError")]
    ELSE
        [calls |-> ingests \o <<"invoke">>,
         outcome |-> _create_structure_of_value_references(engine.result, c.result)]

\* A variant that hands the argument to the engine's ingest whether or not
\* the computation declares a parameter.
invoke_always_ingests(c, engine) ==
    IF ~contains_only_server_placed_data(c.result) THEN
        [calls |-> <<>>, outcome |-> Raise("ValueError")]
    ELSE IF engine.ingest = "raises" THEN
        [calls |-> <<"ingest">>, outcome |-> Raise("EngineError")]
    ELSE IF engine.invoke = "raises" THEN
        [calls |-> <<"ingest", "invoke">>, outcome |-> Raise("EngineError")]
    ELSE
        [calls |-> <<"ingest", "invoke">>,
         outcome |-> _create_structure_of_value_references(engine.result, c.result)]

\* NativeFederatedContext.invoke(comp, arg) against an engine whose ingest and
\* invoke each return or raise: the calls made on self._context and what
\* invoke returns or raises. The returned structure of references is what
\* type_conversions.type_to_py_container is given.
invoke(c, engine) ==
    IF ~contains_only_server_placed_data(c.result) THEN
        [calls |-> <<>>, outcome |-> Raise("ValueError")]
    ELSE
        LET ingests == IF c.parameter # None THEN <<"ingest">> ELSE <<>> IN
        IF c.parameter # None /\ engine.ingest = "raises" THEN
            [calls |-> ingests, outcome |-> Raise("EngineError")]
        ELSE IF engine.invoke = "raises" THEN
            [calls |-> ingests \o <<"invoke">>, outcome |-> Raise("EngineError")]
        ELSE
            [calls |-> ingests \o <<"invoke">>,
             outcome |-> _create_structure_of_value_references(engine.result, c.result)]

\* The parameter types a computation may declare; None declares none.
ParameterTypes ==
    {None, TensorType("int32"),
     FederatedType(SequenceType(TensorType("int32")), "CLIENTS")}

Computations == [parameter : ParameterTypes, result : Types]

\* The behaviours of the underlying context: each call returns or raises, and
\* a returning invoke gives a value shaped like the result type.
Engines(c) ==
    [ingest : {"returns", "raises"}, invoke : {"returns", "raises"},
     result : ShapedValues(c.result, 0)]

InitInvoke ==
    /\ comp \in Computations
    /\ engine_calls = <<>>
    /\ outcome = NotYet
    /\ WalkIdle /\ DataIdle /\ EqIdle

Invoke ==
    /\ outcome = NotYet
    /\ \E engine \in Engines(comp) :
          LET r == invoke(comp, engine) IN
          /\ engine_calls' = r.calls
          /\ outcome' = r.outcome
    /\ UNCHANGED <<comp, walkVars, dataVars, eqVars>>

NextInvoke == Invoke

SpecInvoke == InitInvoke /\ [][NextInvoke]_vars

\* The number of calls of the engine's operation op.
Calls(op) == Cardinality({i \in 1..Len(engine_calls) : engine_calls[i] = op})

\* C1: an invoke of a computation whose result type holds anything other
\* than structs, server-placed federated values and tensors raises the
\* result-type error, and neither the engine's ingest nor its invoke was
\* called.
ResultTypeGate ==
    (outcome # NotYet /\ ~contains_only_server_placed_data(comp.result)) =>
        /\ outcome = Raise("ValueError")
        /\ Calls("ingest") = 0
        /\ Calls("invoke") = 0

\* A computation with a parameter and a client-placed field in its result
\* struct was invoked.
ResultTypeGateWitness ==
    /\ outcome = Raise("ValueError")
    /\ comp.parameter # None
    /\ is_struct(comp.result)
    /\ Len(comp.result[2]) = 1
    /\ is_federated(comp.result[2][1][2])
    /\ comp.result[2][1][2][3] = "CLIENTS"
    /\ is_tensor(comp.result[2][1][2][2])

\* C4 as stated, for an engine that raises nothing: every invoke that passes
\* the result-type check calls the engine's ingest once and its invoke once.
IngestAndInvokeOnceEach ==
    (outcome # NotYet /\ ~IsRaise(outcome)) =>
        Calls("ingest") = 1 /\ Calls("invoke") = 1

\* C4 amended: an invoke that passes the result-type check calls the
\* engine's ingest once when the computation declares a parameter type and
\* never when it declares none, and then calls the engine's invoke once,
\* unless the engine's ingest raised.
IngestOnlyWithParameter ==
    (outcome # NotYet /\ contains_only_server_placed_data(comp.result)) =>
        IF comp.parameter = None
        THEN engine_calls = <<"invoke">>
        ELSE \/ engine_calls = <<"ingest", "invoke">>
             \/ engine_calls = <<"ingest">> /\ outcome = Raise("EngineError")

\* A computation that declares no parameter returned: invoke was the only
\* call.
IngestOnlyWithParameterWitness ==
    /\ outcome # NotYet
    /\ ~IsRaise(outcome)
    /\ comp.parameter = None
    /\ engine_calls = <<"invoke">>

----------------------------------------------------------------------------
\* DatasetDataSource and DatasetDataSourceIterator.

ElementSpecs == {"int32", "float32"}

\* The tf.data.Dataset of client i; its element_spec.
Dataset(i, spec) == <<"Dataset", i, spec>>
element_spec(dataset) == dataset[3]

\* The collections of at most MaxDatasets datasets, one per client.
Collections ==
    UNION {{[i \in 1..n |-> Dataset(i, specs[i])] : specs \in [1..n -> ElementSpecs]} :
           n \in 0..MaxDatasets}

PyInt(n) == <<"int", n>>

\* Some dataset's element_spec differs from the first dataset's.
Heterogeneous(datasets) ==
    \E i \in 1..Len(datasets) : element_spec(datasets[i]) # element_spec(datasets[1])

\* The number of datasets the loop `for dataset in datasets` examines before
\* it ends or raises.
Examined(datasets) ==
    IF Heterogeneous(datasets)
    THEN CHOOSE i \in 1..Len(datasets) :
            /\ element_spec(datasets[i]) # element_spec(datasets[1])
            /\ \A j \in 1..(i - 1) : element_spec(datasets[j]) = element_spec(datasets[1])
    ELSE Len(datasets)

\* A variant that never compares the element specs.
DatasetDataSource_unchecked(datasets, heap) ==
    IF heap[datasets] = <<>> THEN Raise("ValueError")
    ELSE <<"DatasetDataSource", datasets,
           FederatedType(SequenceType(TensorType(element_spec(heap[datasets][1]))),
                         "CLIENTS")>>

\* DatasetDataSource.__init__(datasets): the object, holding the collection
\* itself (its index in the heap), or the exception.
DatasetDataSource(datasets, heap) ==
    IF heap[datasets] = <<>> THEN Raise("ValueError")
    ELSE IF Heterogeneous(heap[datasets]) THEN Raise("ValueError")
    ELSE <<"DatasetDataSource", datasets,
           FederatedType(SequenceType(TensorType(element_spec(heap[datasets][1]))),
                         "CLIENTS")>>

\* DatasetDataSourceIterator.__init__(datasets, federated_type)
DatasetDataSourceIterator(datasets, federated_type, heap) ==
    IF heap[datasets] = <<>> THEN Raise("ValueError")
    ELSE IF Heterogeneous(heap[datasets]) THEN Raise("ValueError")
    ELSE IF ~is_federated(federated_type) THEN Raise("TypeError")
    ELSE <<"DatasetDataSourceIterator", datasets, federated_type>>

\* DatasetDataSource.iterator()
iterator(self, heap) == DatasetDataSourceIterator(self[2], self[3], heap)

\* random.choices(population, k): one draw per position, with replacement.
choices(population, k, draws) == <<"list", [j \in 1..k |-> population[draws[j]]]>>

\* A variant that follows the docstring: a positive count less than the
\* number of datasets.
select_less_than(self, number_of_clients, heap, draws) ==
    IF \/ number_of_clients = None
       \/ number_of_clients[2] <= 0
       \/ number_of_clients[2] >= Len(heap[self[2]])
    THEN Raise("ValueError")
    ELSE choices(heap[self[2]], number_of_clients[2], draws)

\* DatasetDataSourceIterator.select(number_of_clients)
select(self, number_of_clients, heap, draws) ==
    IF \/ number_of_clients = None
       \/ number_of_clients[2] < 0
       \/ number_of_clients[2] > Len(heap[self[2]])
    THEN Raise("ValueError")
    ELSE choices(heap[self[2]], number_of_clients[2], draws)

\* The counts a caller may pass: none, or an integer.
Counts == {None} \cup {PyInt(n) : n \in (-1)..(MaxDatasets + 1)}

\* The number of draws a count asks for.
Draws(number_of_clients) ==
    IF number_of_clients = None \/ number_of_clients[2] < 0 THEN 0
    ELSE number_of_clients[2]

InitData ==
    /\ lists = <<>>
    /\ data_source = NotYet
    /\ iterators = <<>>
    /\ last_call = NotYet
    /\ select_failed = {}
    /\ WalkIdle /\ InvokeIdle /\ EqIdle

\* The caller builds a collection and constructs the data source from it.
NewDataSource ==
    /\ data_source = NotYet
    /\ \E datasets \in Collections :
          LET heap == Append(lists, datasets)
              r == DatasetDataSource(Len(heap), heap)
          IN  /\ last_call' = <<"DatasetDataSource", datasets, r>>
              /\ IF IsRaise(r)
                 THEN UNCHANGED <<lists, data_source>>
                 ELSE lists' = heap /\ data_source' = r
    /\ UNCHANGED <<iterators, select_failed, walkVars, invokeVars, eqVars>>

\* A variant of iterator() that hands the iterator a copy of the collection.
MakeIteratorCopying ==
    /\ data_source # NotYet
    /\ Len(iterators) < MaxIterators
    /\ LET heap == Append(lists, lists[data_source[2]])
           r == DatasetDataSourceIterator(Len(heap), data_source[3], heap)
       IN  /\ last_call' = <<"iterator", r, Examined(lists[data_source[2]])>>
           /\ lists' = heap
           /\ iterators' = Append(iterators, r)
    /\ UNCHANGED <<data_source, select_failed, walkVars, invokeVars, eqVars>>

\* DatasetDataSource.iterator(): DatasetDataSourceIterator.__init__ runs on
\* the data source's own collection and type, its validating loop included.
MakeIterator ==
    /\ data_source # NotYet
    /\ Len(iterators) < MaxIterators
    /\ LET r == iterator(data_source, lists) IN
          /\ last_call' = <<"iterator", r, Examined(lists[data_source[2]])>>
          /\ iterators' = IF IsRaise(r) THEN iterators ELSE Append(iterators, r)
    /\ UNCHANGED <<lists, data_source, select_failed, walkVars, invokeVars, eqVars>>

\* A variant of select that takes the drawn datasets out of the collection.
SelectConsuming(i, number_of_clients) ==
    /\ \E draws \in [1..Draws(number_of_clients) -> 1..Len(lists[iterators[i][2]])] :
          LET r == select(iterators[i], number_of_clients, lists, draws)
              drawn == {draws[j] : j \in 1..Draws(number_of_clients)}
              kept == SelectSeq(lists[iterators[i][2]],
                                LAMBDA d : IsRaise(r) \/ d[2] \notin drawn)
          IN  /\ last_call' = <<"select", i, number_of_clients, r>>
              /\ lists' = [lists EXCEPT ![iterators[i][2]] = kept]
              /\ select_failed' =
                    IF IsRaise(r) THEN select_failed \cup {i} ELSE select_failed
    /\ UNCHANGED <<data_source, iterators, walkVars, invokeVars, eqVars>>

\* iterators[i].select(number_of_clients)
Select(i, number_of_clients) ==
    /\ \E draws \in [1..Draws(number_of_clients) -> 1..Len(lists[iterators[i][2]])] :
          LET r == select(iterators[i], number_of_clients, lists, draws) IN
          /\ last_call' = <<"select", i, number_of_clients, r>>
          /\ select_failed' =
                IF IsRaise(r) THEN select_failed \cup {i} ELSE select_failed
    /\ UNCHANGED <<lists, data_source, iterators, walkVars, invokeVars, eqVars>>

NextData ==
    \/ NewDataSource
    \/ MakeIterator
    \/ \E i \in 1..Len(iterators) : \E number_of_clients \in Counts :
          Select(i, number_of_clients)

SpecData == InitData /\ [][NextData]_vars

\* The collection iterator i holds.
DatasetsOf(i) == lists[iterators[i][2]]

ConstructionValidates ==
    /\ last_call[1] = "DatasetDataSource" =>
          LET datasets == last_call[2] IN
          IF \/ datasets = <<>>
             \/ \E i \in 1..Len(datasets) : datasets[i][3] # datasets[1][3]
          THEN last_call[3] = Raise("ValueError") /\ data_source = NotYet
          ELSE /\ data_source = last_call[3]
               /\ lists[data_source[2]] = datasets
    /\ data_source # NotYet =>
          /\ data_source[1] = "DatasetDataSource"
          /\ lists[data_source[2]] # <<>>
          /\ \A i, j \in 1..Len(lists[data_source[2]]) :
                lists[data_source[2]][i][3] = lists[data_source[2]][j][3]

\* A collection whose second dataset differs from the first was refused.
ConstructionValidatesWitness ==
    /\ last_call[1] = "DatasetDataSource"
    /\ Len(last_call[2]) = 2
    /\ last_call[2][1][3] # last_call[2][2][3]
    /\ last_call[3] = Raise("ValueError")
    /\ data_source = NotYet

IteratorWithoutValidation ==
    last_call[1] = "iterator" =>
        /\ last_call[2][2] = data_source[2]
        /\ last_call[2][3] = data_source[3]
        /\ last_call[3] = 0

\* C9 amended: iterator() returns a new iterator holding the data source's
\* own collection (not a copy) and federated type; creating it examines every
\* dataset of the collection again, and raises nothing.
IteratorSharesAndRevalidates ==
    last_call[1] = "iterator" =>
        /\ last_call[2][1] = "DatasetDataSourceIterator"
        /\ iterators # <<>> /\ iterators[Len(iterators)] = last_call[2]
        /\ last_call[2][2] = data_source[2]
        /\ last_call[2][3] = data_source[3]
        /\ Len(lists) = 1
        /\ last_call[3] = Len(lists[data_source[2]])

\* A second iterator was created from a data source of two datasets.
IteratorSharesAndRevalidatesWitness ==
    /\ last_call[1] = "iterator"
    /\ Len(iterators) = 2
    /\ iterators[1][2] = iterators[2][2]
    /\ Len(lists[data_source[2]]) = 2
    /\ last_call[3] = 2

----------------------------------------------------------------------------
\* NumpyValueReference.__eq__.

\* A reference object is named by its place among the references.
At(i) == <<"at", i>>

\* list(iterable)
list(v) ==
    IF v[1] \in {"list", "tuple"} THEN <<"list", v[2]>> ELSE Raise("TypeError")

PyBool(b) == IF b THEN "True" ELSE "False"

\* A numpy scalar that is not a number.
NaN == <<"nan">>

\* a == b on values: a scalar that is not a number equals nothing, itself
\* included.
py_eq(a, b) == IF a = NaN \/ b = NaN THEN FALSE ELSE a = b

\* A variant that compares the values whatever the type signatures are.
eq_ignoring_type(self, other, heap) ==
    IF self = other THEN "True"
    ELSE IF other[1] # "at" THEN "NotImplemented"
    ELSE IF is_sequence(heap[self[2]][3])
         THEN PyBool(py_eq(list(heap[self[2]][2]), list(heap[other[2]][2])))
         ELSE PyBool(py_eq(heap[self[2]][2], heap[other[2]][2]))

\* NumpyValueReference.__eq__(self, other)
__eq__(self, other, heap) ==
    IF self = other THEN "True"
    ELSE IF other[1] # "at" THEN "NotImplemented"
    ELSE IF heap[self[2]][3] # heap[other[2]][3] THEN "False"
    ELSE IF is_sequence(heap[self[2]][3])
         THEN PyBool(py_eq(list(heap[self[2]][2]), list(heap[other[2]][2])))
         ELSE PyBool(py_eq(heap[self[2]][2], heap[other[2]][2]))

\* The type signatures a reference may carry.
ReferenceTypes ==
    {TensorType("int32"), TensorType("float32"),
     SequenceType(TensorType("int32")), SequenceType(TensorType("float32"))}

\* The values of a type: a numpy scalar for a tensor type (for a float one,
\* also the scalar that is not a number), a list or a tuple of at most
\* MaxLength numbers for a sequence type.
ValuesOf(t) ==
    IF is_tensor(t) THEN {Np(0), Np(1)} \cup (IF t[2] = "float32" THEN {NaN} ELSE {})
    ELSE {<<c, [i \in 1..n |-> Np(i)]>> : c \in {"list", "tuple"}, n \in 0..MaxLength}

InitEq ==
    /\ references = <<>>
    /\ last_eq = NotYet
    /\ WalkIdle /\ InvokeIdle /\ DataIdle

\* NumpyValueReference(value, type_signature)
NewReference ==
    /\ Len(references) < MaxReferences
    /\ \E t \in ReferenceTypes : \E v \in ValuesOf(t) :
          references' = Append(references, NumpyValueReference(v, t))
    /\ UNCHANGED <<last_eq, walkVars, invokeVars, dataVars>>

\* references[i] == references[j]
Compare(i, j) ==
    /\ last_eq' = <<At(i), At(j), __eq__(At(i), At(j), references)>>
    /\ UNCHANGED <<references, walkVars, invokeVars, dataVars>>

\* references[i] == v, for a v that is no NumpyValueReference
CompareWithValue(i, v) ==
    /\ last_eq' = <<At(i), v, __eq__(At(i), v, references)>>
    /\ UNCHANGED <<references, walkVars, invokeVars, dataVars>>

NextEq ==
    \/ NewReference
    \/ \E i, j \in 1..Len(references) : Compare(i, j)
    \/ \E i \in 1..Len(references) : CompareWithValue(i, Np(0))

SpecEq == InitEq /\ [][NextEq]_vars

\* The elements of a sequence value, in order.
ElementsOf(v) == v[2]

=============================================================================
